---- MODULE Spec2Model ----
(***************************************************************************)
(* CorrectedFluorescenceTraces                                             *)
(* (allensdk/brain_observatory/behavior/data_objects/cell_specimens/       *)
(*  traces/corrected_flourescence_traces.py)                               *)
(*                                                                         *)
(* The data object holds a pandas DataFrame indexed by cell_roi_id with    *)
(* one column, corrected_fluorescence, of per-ROI sample lists.  It is     *)
(* built by __init__ (optionally filtered), from_nwb or from_data_file,    *)
(* and written into an NWBFile by to_nwb, which borrows the ROI table and  *)
(* the timestamps of the 'dff' interface already in the file.              *)
(*                                                                         *)
(* Python values are tagged records, so that a sample (num), a list and a  *)
(* pandas Series can sit in the same cell; numpy arrays carry their shape. *)
(***************************************************************************)
EXTENDS Integers, Sequences, FiniteSets, TLC

VARIABLES
    self,      \* the object the last constructor call produced, or None
    nwbfile,   \* the NWBFile the read and write operations are given
    last,      \* the last call: its name, exception, filter, and the file before it
    written,   \* the table to_nwb wrote into nwbfile's block, or None
    origin,    \* the block data self was read from by from_nwb, or None
    call       \* SpecInit: the constructor call under test, else None

vars == <<self, nwbfile, last, written, origin, call>>

(***************************************************************************)
(* Bounds of the model                                                     *)
(***************************************************************************)
MaxRois == 2      \* ROIs of a source table / rows of an ROI table
MaxT == 2         \* samples per trace, timestamps of a companion series
MaxNest == 2      \* list nesting of a cell value that to_nwb is followed on

(***************************************************************************)
(* Python values                                                           *)
(***************************************************************************)
None == [k |-> "none"]
Num(n) == [k |-> "num", v |-> n]
List(s) == [k |-> "list", v |-> s]
Series(s) == [k |-> "series", v |-> s]
IsNone(x) == x.k = "none"

Range(s) == {s[i] : i \in DOMAIN s}

Max(S) == CHOOSE m \in S : \A x \in S : x <= m

IsUnique(s) == \A i, j \in DOMAIN s : s[i] = s[j] => i = j

SeqsUpTo(S, n) == UNION {[1..m -> S] : m \in 0..n}

\* list nesting of a Python value: 0 for a sample, 1 for a list of samples
RECURSIVE Depth(_)
Depth(x) ==
    IF x.k = "num" THEN 0
    ELSE IF x.v = <<>> THEN 1
    ELSE 1 + Max({Depth(x.v[i]) : i \in DOMAIN x.v})

(***************************************************************************)
(* numpy                                                                   *)
(***************************************************************************)
RECURSIVE CommonPrefix(_, _)
CommonPrefix(a, b) ==
    IF a = <<>> \/ b = <<>> \/ Head(a) # Head(b) THEN <<>>
    ELSE <<Head(a)>> \o CommonPrefix(Tail(a), Tail(b))

RECURSIVE CommonPrefixAll(_)
CommonPrefixAll(S) ==
    LET a == CHOOSE x \in S : TRUE
    IN  IF S = {a} THEN a ELSE CommonPrefix(a, CommonPrefixAll(S \ {a}))

\* The shape np.array discovers: it descends into nested Python lists as
\* long as the items agree; a Series is taken through __array__ as a 1-D
\* object array whose cells are not descended into.
RECURSIVE Shape(_)
Shape(x) ==
    IF x.k = "num" THEN <<>>
    ELSE IF x.k = "series" THEN <<Len(x.v)>>
    ELSE IF x.v = <<>> THEN <<0>>
    ELSE <<Len(x.v)>> \o CommonPrefixAll({Shape(x.v[i]) : i \in DOMAIN x.v})

\* Whether the nested value is rectangular (no inhomogeneous level).
RECURSIVE Rect(_)
Rect(x) ==
    IF x.k = "num" \/ x.k = "series" THEN TRUE
    ELSE /\ \A i \in DOMAIN x.v : Rect(x.v[i])
         /\ \A i, j \in DOMAIN x.v : Shape(x.v[i]) = Shape(x.v[j])

\* One axis of an array: its items in order.
Axis(s) == [k |-> "axis", v |-> s]

RECURSIVE Unwrap(_, _)
Unwrap(x, d) ==
    IF d = 0 THEN x ELSE Axis([i \in 1..Len(x.v) |-> Unwrap(x.v[i], d - 1)])

\* np.array(elems): shape and cells (nested to the depth of the shape).
NpArray(elems) ==
    LET x == List(elems)
    IN  [k |-> "ndarray", shape |-> Shape(x), v |-> Unwrap(x, Len(Shape(x)))]

RECURSIVE TakeLast(_, _, _)
TakeLast(v, n, j) ==
    IF n = 1 THEN v.v[j]
    ELSE Axis([i \in 1..Len(v.v) |-> TakeLast(v.v[i], n - 1, j)])

RECURSIVE TransposeV(_, _)
TransposeV(v, shape) ==
    LET n == Len(shape)
    IN  IF n <= 1 THEN v
        ELSE Axis([j \in 1..shape[n] |->
                      TransposeV(TakeLast(v, n, j), SubSeq(shape, 1, n - 1))])

Reverse(s) == [i \in 1..Len(s) |-> s[Len(s) + 1 - i]]

\* A forgotten transpose.
NoTranspose(a) == a

\* ndarray.T: the axes reversed (the identity on a 1-D array).
Transpose(a) ==
    [k |-> "ndarray", shape |-> Reverse(a.shape), v |-> TransposeV(a.v, a.shape)]

RECURSIVE Wrap(_, _)
Wrap(v, d) ==
    IF d = 0 THEN v ELSE List([i \in 1..Len(v.v) |-> Wrap(v.v[i], d - 1)])

\* ndarray.tolist(): the Python list of the items along the first axis.
ToList(a) == [i \in 1..a.shape[1] |-> Wrap(a.v.v[i], Len(a.shape) - 1)]

(***************************************************************************)
(* pandas                                                                  *)
(***************************************************************************)
\* A DataFrame with the single column corrected_fluorescence:
\* [name |-> index name, index |-> labels, vals |-> the column's cells].
DataFrame(name, index, vals) ==
    [k |-> "DataFrame", name |-> name, index |-> index, vals |-> vals]

\* The positions of a label in an index, ascending.
Positions(index, label) ==
    SelectSeq([i \in 1..Len(index) |-> i], LAMBDA i : index[i] = label)

RECURSIVE LocPositions(_, _)
LocPositions(index, labels) ==
    IF labels = <<>> THEN <<>>
    ELSE Positions(index, Head(labels)) \o LocPositions(index, Tail(labels))

\* A boolean mask instead of .loc (traces[traces.index.isin(labels)]): the
\* rows whose label is asked for, in the order of the table.
LocSourceOrder(traces, labels) ==
    LET p == SelectSeq([i \in 1..Len(traces.index) |-> i],
                       LAMBDA i : traces.index[i] \in Range(labels))
    IN  DataFrame(traces.name,
                  [i \in 1..Len(p) |-> traces.index[p[i]]],
                  [i \in 1..Len(p) |-> traces.vals[p[i]]])

\* traces.loc[labels] for a list of labels: for each label in the order
\* given, every row carrying it.
Loc(traces, labels) ==
    LET p == LocPositions(traces.index, labels)
    IN  DataFrame(traces.name,
                  [i \in 1..Len(p) |-> traces.index[p[i]]],
                  [i \in 1..Len(p) |-> traces.vals[p[i]]])

\* traces.loc[label].corrected_fluorescence for one label: the cell when
\* the label is unique, a Series of the cells when it is repeated.
LocCell(traces, label) ==
    LET p == Positions(traces.index, label)
    IN  IF Len(p) = 1 THEN traces.vals[p[1]]
        ELSE Series([i \in 1..Len(p) |-> traces.vals[p[i]]])

\* .any() in the place of .all()
In1dAny(filter_to_roi_ids, index) ==
    \/ filter_to_roi_ids = <<>>
    \/ \E i \in DOMAIN filter_to_roi_ids : filter_to_roi_ids[i] \in Range(index)

\* np.in1d(filter_to_roi_ids, traces.index).all()
In1dAll(filter_to_roi_ids, index) ==
    \A i \in DOMAIN filter_to_roi_ids : filter_to_roi_ids[i] \in Range(index)

(***************************************************************************)
(* CorrectedFluorescenceTraces                                             *)
(***************************************************************************)
Array(s) == [k |-> "array", v |-> s]

Raise(e) == [err |-> e, obj |-> None]

Object(traces) == [k |-> "CorrectedFluorescenceTraces", value |-> traces]

\* __init__(traces, filter_to_roi_ids): the object, or the exception.
init(traces, filter_to_roi_ids) ==
    IF ~IsNone(filter_to_roi_ids)
    THEN IF ~In1dAll(filter_to_roi_ids.v, traces.index)
         THEN Raise("RuntimeError")
         ELSE [err |-> "ok", obj |-> Object(Loc(traces, filter_to_roi_ids.v))]
    ELSE [err |-> "ok", obj |-> Object(traces)]

\* An NWBFile: the 'ophys' processing module, if any, with its 'dff' and
\* 'corrected_fluorescence' data interfaces.
NWBFile(ophys, dff, cf) ==
    [k |-> "NWBFile", ophys |-> ophys, dff |-> dff, cf |-> cf]

\* The 'traces' series of the 'dff' interface: only its rois (the ids of
\* the ROI table it references) and its timestamps are read.
DffSeries(rois, timestamps) == [k |-> "dff", rois |-> rois, timestamps |-> timestamps]

Fluorescence(traces) == [k |-> "Fluorescence", traces |-> traces]

RoiResponseSeries(data, unit, rois, timestamps) ==
    [k |-> "RoiResponseSeries", data |-> data, unit |-> unit,
     rois |-> rois, timestamps |-> timestamps]

\* from_nwb(nwbfile, filter_to_roi_ids)
from_nwb(nwb, filter_to_roi_ids) ==
    IF ~nwb.ophys \/ IsNone(nwb.cf) THEN Raise("KeyError")
    ELSE IF IsNone(nwb.cf.traces) THEN Raise("KeyError")
    ELSE LET corr_fluorescence_nwb == nwb.cf.traces
             f_traces == Transpose(corr_fluorescence_nwb.data)
             vals == ToList(f_traces)
         IN  IF Len(vals) # Len(corr_fluorescence_nwb.rois)
             THEN Raise("ValueError")
             ELSE init(DataFrame("cell_roi_id", corr_fluorescence_nwb.rois, vals),
                       filter_to_roi_ids)

\* from_data_file(demix_file)
from_data_file(demix_file) == init(demix_file.data, None)

\* The assertion left out.
AssertNothing(traces) == TRUE

\* assert corrected_fluorescence_traces.index.name == 'cell_roi_id'
AssertIndexName(traces) == traces.name = "cell_roi_id"

\* What create_roi_response_series accepts: data of one or two dimensions
\* and timestamps (a series needs timestamps or a rate, and no rate is given).
SeriesArgsError(data, timestamps) ==
    IF Len(data.shape) > 2 THEN "ValueError"
    ELSE IF IsNone(timestamps) THEN "TypeError"
    ELSE "ok"

\* to_nwb with the interface registered before the dff series is looked up.
to_nwb_RegisterFirst(obj, nwb, numpy) ==
    LET traces == obj.value
        elems == [i \in 1..Len(traces.index) |-> LocCell(traces, traces.index[i])]
        data == Transpose(NpArray(elems))
        added == [nwb EXCEPT !.cf = Fluorescence(None)]
    IN  IF ~AssertIndexName(traces)
        THEN [err |-> "AssertionError", nwbfile |-> nwb]
        ELSE IF ~nwb.ophys
        THEN [err |-> "KeyError", nwbfile |-> nwb]
        ELSE IF ~Rect(List(elems)) /\ numpy = "strict"
        THEN [err |-> "ValueError", nwbfile |-> nwb]
        ELSE IF ~IsNone(nwb.cf)
        THEN [err |-> "ValueError", nwbfile |-> nwb]
        ELSE IF IsNone(nwb.dff)
        THEN [err |-> "KeyError", nwbfile |-> added]
        ELSE IF SeriesArgsError(data, nwb.dff.timestamps) # "ok"
        THEN [err |-> SeriesArgsError(data, nwb.dff.timestamps), nwbfile |-> added]
        ELSE [err |-> "ok",
              nwbfile |-> [nwb EXCEPT !.cf = Fluorescence(
                  RoiResponseSeries(data, "NA", nwb.dff.rois, nwb.dff.timestamps))]]

\* to_nwb(self, nwbfile): the exception and the file as the call leaves it.
\* numpy names the build: "strict" raises on an inhomogeneous list,
\* "legacy" makes an object array of it.
to_nwb(obj, nwb, numpy) ==
    LET traces == obj.value
        elems == [i \in 1..Len(traces.index) |-> LocCell(traces, traces.index[i])]
        f_trace_data == NpArray(elems)
        data == Transpose(f_trace_data)
    IN  IF ~AssertIndexName(traces)
        THEN [err |-> "AssertionError", nwbfile |-> nwb]
        ELSE IF ~nwb.ophys
        THEN [err |-> "KeyError", nwbfile |-> nwb]
        ELSE IF ~Rect(List(elems)) /\ numpy = "strict"
        THEN [err |-> "ValueError", nwbfile |-> nwb]
        ELSE IF IsNone(nwb.dff)
        THEN [err |-> "KeyError", nwbfile |-> nwb]
        ELSE IF ~IsNone(nwb.cf)
        THEN [err |-> "ValueError", nwbfile |-> nwb]
        ELSE IF SeriesArgsError(data, nwb.dff.timestamps) # "ok"
        THEN [err |-> SeriesArgsError(data, nwb.dff.timestamps),
              nwbfile |-> [nwb EXCEPT !.cf = Fluorescence(None)]]
        ELSE [err |-> "ok",
              nwbfile |-> [nwb EXCEPT !.cf = Fluorescence(
                  RoiResponseSeries(data, "NA", nwb.dff.rois, nwb.dff.timestamps))]]

(***************************************************************************)
(* Inputs                                                                  *)
(***************************************************************************)
RoiId(i) == 5 + 2 * i

RoiIds == {RoiId(i) : i \in 1..MaxRois}

\* One id more than any table holds, so that a filter can name an absent id.
FilterIds == {RoiId(i) : i \in 1..(MaxRois + 1)}

\* The code moves samples and never inspects them: every sample of a
\* recording is a distinct number, so that any misplaced sample shows.
Trace(i, T) == List([t \in 1..T |-> Num((i - 1) * T + t)])

IndexNames == {"cell_roi_id", "cell_specimen_id"}

UniqueSeqs(S, n) == {s \in SeqsUpTo(S, n) : IsUnique(s)}

\* The tables a caller or a demix file supplies: a unique index, every
\* row a list of T samples.
SourceTables ==
    {DataFrame(nm, [j \in 1..Len(ix) |-> RoiId(ix[j])],
                   [j \in 1..Len(ix) |-> Trace(ix[j], T)]) :
        nm \in IndexNames, ix \in UniqueSeqs(1..MaxRois, MaxRois), T \in 1..MaxT}

\* filter_to_roi_ids: None, or ids in any order, repeated or not, as many
\* as the largest table has rows.
Filters == {None} \cup {Array(f) : f \in SeqsUpTo(FilterIds, MaxRois)}

Timestamps(n) == [k |-> "timestamps", v |-> [t \in 1..n |-> t - 1]]

\* The files to_nwb and from_nwb are handed: without an ophys module,
\* without a dff interface, or with a dff series over some ROI table that
\* carries timestamps or (None) a rate.
Containers ==
    {NWBFile(FALSE, None, None), NWBFile(TRUE, None, None)} \cup
    {NWBFile(TRUE, DffSeries(rois, ts), None) :
        rois \in UniqueSeqs(RoiIds, MaxRois),
        ts \in {None} \cup {Timestamps(n) : n \in 1..MaxT}}

(***************************************************************************)
(* The state machine: objects are constructed, written into the file and   *)
(* read back, in any order.                                                *)
(***************************************************************************)
Call(op, err, filter, pre) ==
    [op |-> op, err |-> err, filter |-> filter, pre |-> pre]

NoCall == Call("none", "ok", None, None)

Init ==
    /\ self = None
    /\ nwbfile \in Containers
    /\ last = NoCall
    /\ written = None
    /\ origin = None
    /\ call = None

Construct(traces, filter_to_roi_ids) ==
    LET r == init(traces, filter_to_roi_ids)
    IN  /\ self' = r.obj
        /\ last' = Call("__init__", r.err, None, None)
        /\ origin' = None
        /\ UNCHANGED <<nwbfile, written, call>>

FromDataFile(demix_file) ==
    LET r == from_data_file(demix_file)
    IN  /\ self' = r.obj
        /\ last' = Call("from_data_file", r.err, None, None)
        /\ origin' = None
        /\ UNCHANGED <<nwbfile, written, call>>

FromNwb(filter_to_roi_ids) ==
    LET r == from_nwb(nwbfile, filter_to_roi_ids)
    IN  /\ self' = r.obj
        /\ last' = Call("from_nwb", r.err, filter_to_roi_ids, nwbfile)
        /\ origin' = IF r.err = "ok" /\ IsNone(filter_to_roi_ids)
                     THEN nwbfile.cf.traces.data ELSE None
        /\ UNCHANGED <<nwbfile, written, call>>

RowDepth(traces) == Max({0} \cup {Depth(traces.vals[i]) : i \in DOMAIN traces.vals})

ToNwb(numpy) ==
    /\ ~IsNone(self)
    /\ RowDepth(self.value) <= MaxNest
    /\ LET r == to_nwb(self, nwbfile, numpy)
       IN  /\ nwbfile' = r.nwbfile
           /\ last' = Call("to_nwb", r.err, None, nwbfile)
           /\ written' = IF r.err = "ok" THEN self.value ELSE written
           /\ UNCHANGED <<self, origin, call>>

\* The caller turns to another file.
NewContainer(nwb) ==
    /\ nwbfile' = nwb
    /\ last' = NoCall
    /\ written' = None
    /\ UNCHANGED <<self, origin, call>>

Next ==
    \/ \E traces \in SourceTables, f \in Filters : Construct(traces, f)
    \/ \E traces \in SourceTables : FromDataFile([data |-> traces])
    \/ \E f \in Filters : FromNwb(f)
    \/ \E numpy \in {"strict", "legacy"} : ToNwb(numpy)
    \/ \E nwb \in Containers : NewContainer(nwb)

Spec == Init /\ [][Next]_vars

(***************************************************************************)
(* The constructors alone: a call is drawn with its arguments, then made.  *)
(***************************************************************************)
\* The files from_nwb can be handed: those above, and those into which
\* to_nwb has written a constructed object.
WrittenContainers ==
    {to_nwb(init(a[1], a[2]).obj, a[3], "legacy").nwbfile :
        a \in {b \in SourceTables \X Filters \X Containers :
                   init(b[1], b[2]).err = "ok"}}

PendingCall(fn, traces, filter) == [fn |-> fn, traces |-> traces, filter |-> filter]

InitCalls ==
    /\ self = None
    /\ last = NoCall
    /\ written = None
    /\ origin = None
    /\ call \in {PendingCall("__init__", t, f) : t \in SourceTables, f \in Filters}
           \cup {PendingCall("from_data_file", t, None) : t \in SourceTables}
           \cup {PendingCall("from_nwb", None, f) : f \in Filters}
    /\ nwbfile \in IF call.fn = "from_nwb"
                   THEN Containers \cup WrittenContainers
                   ELSE {NWBFile(FALSE, None, None)}

CallInit ==
    /\ call.fn = "__init__"
    /\ last = NoCall
    /\ LET r == init(call.traces, call.filter)
       IN  /\ self' = r.obj
           /\ last' = Call("__init__", r.err, call.filter, nwbfile)
    /\ UNCHANGED <<nwbfile, written, origin, call>>

CallFromDataFile ==
    /\ call.fn = "from_data_file"
    /\ last = NoCall
    /\ LET r == from_data_file([data |-> call.traces])
       IN  /\ self' = r.obj
           /\ last' = Call("from_data_file", r.err, None, nwbfile)
    /\ UNCHANGED <<nwbfile, written, origin, call>>

CallFromNwb ==
    /\ call.fn = "from_nwb"
    /\ last = NoCall
    /\ LET r == from_nwb(nwbfile, call.filter)
       IN  /\ self' = r.obj
           /\ last' = Call("from_nwb", r.err, call.filter, nwbfile)
    /\ UNCHANGED <<nwbfile, written, origin, call>>

NextCalls == CallInit \/ CallFromDataFile \/ CallFromNwb

SpecInit == InitCalls /\ [][NextCalls]_vars

(***************************************************************************)
(* Properties                                                              *)
(***************************************************************************)
\* The file holds a 'corrected_fluorescence' interface with its 'traces' series.
HasBlock(nwb) == nwb.ophys /\ ~IsNone(nwb.cf) /\ ~IsNone(nwb.cf.traces)

\* An entity-major table: every cell a list of samples, all of one length.
IsTraceTable(t) ==
    \A i \in DOMAIN t.vals :
        /\ t.vals[i].k = "list"
        /\ \A j \in DOMAIN t.vals[i].v : t.vals[i].v[j].k = "num"
        /\ Len(t.vals[i].v) = Len(t.vals[1].v)

\* A timepoints x ROIs array of samples.
IsSamples2D(a) ==
    /\ Len(a.shape) = 2
    /\ \A t \in 1..a.shape[1], i \in 1..a.shape[2] : a.v.v[t].v[i].k = "num"

\* Column i of a 2-D array, as a Python list.
Column(a, i) == List([t \in 1..a.shape[1] |-> a.v.v[t].v[i]])

\* The table and the dff series belong to one session: the same ROIs (in
\* some order), as many timestamps as a trace has samples.
SameSession(t, dff) ==
    /\ t.index # <<>> /\ IsUnique(t.index) /\ IsTraceTable(t)
    /\ Range(t.index) = Range(dff.rois) /\ Len(t.index) = Len(dff.rois)
    /\ ~IsNone(dff.timestamps)
    /\ Len(dff.timestamps.v) = Len(t.vals[1].v)

\* C1: round trip.  When from_nwb without a filter reads the file into
\* which to_nwb wrote a table T with a non-empty unique index, it succeeds
\* and the table it builds equals T (index values, index order, samples).
\* Stated for the files most favourable to the claim: the dff series is
\* of the same session as T.
C1_RoundTrip ==
    (/\ last.op = "from_nwb" /\ IsNone(last.filter)
     /\ ~IsNone(written)
     /\ SameSession(written, nwbfile.dff))
    => (last.err = "ok" /\ self.value = written)

\* The source table of the constructor call under test.
Source ==
    IF call.fn = "from_nwb"
    THEN DataFrame("cell_roi_id", nwbfile.cf.traces.rois,
                   ToList(Transpose(nwbfile.cf.traces.data)))
    ELSE call.traces

\* C2: a constructor call, direct or through from_nwb, whose filter names
\* an id absent from the source index raises and constructs no object.
C2_AbsentIdFails ==
    LET absent(index) ==
            \E i \in DOMAIN call.filter.v : call.filter.v[i] \notin Range(index)
    IN  /\ (last.op = "__init__" /\ ~IsNone(call.filter)
                /\ absent(call.traces.index))
           => (last.err = "RuntimeError" /\ IsNone(self))
        /\ (last.op = "from_nwb" /\ ~IsNone(call.filter) /\ HasBlock(nwbfile)
                /\ absent(nwbfile.cf.traces.rois))
           => (last.err \in {"RuntimeError", "ValueError"} /\ IsNone(self))

\* A filter with one id of the table and one absent id was refused.
C2_Witness ==
    /\ last.op = "__init__" /\ ~IsNone(call.filter)
    /\ \E i, j \in DOMAIN call.filter.v :
          /\ call.filter.v[i] \in Range(call.traces.index)
          /\ call.filter.v[j] \notin Range(call.traces.index)
    /\ last.err = "RuntimeError" /\ IsNone(self)

\* C3: a constructor call whose filter lies within the source index
\* succeeds with a table whose index is the filter, in the filter's order,
\* each id carrying the samples it has in the source; without a filter
\* the table is the source.
C3_FilterOrder ==
    /\ (last.op \in {"__init__", "from_data_file", "from_nwb"} /\ last.err = "ok")
       => IF IsNone(call.filter) THEN self.value = Source
          ELSE /\ self.value.index = call.filter.v
               /\ self.value.name = Source.name
               /\ Len(self.value.vals) = Len(call.filter.v)
               /\ \A i \in DOMAIN call.filter.v :
                     \E p \in DOMAIN Source.index :
                        /\ Source.index[p] = call.filter.v[i]
                        /\ self.value.vals[i] = Source.vals[p]
    /\ (last.op = "__init__" /\ ~IsNone(call.filter)
            /\ Range(call.filter.v) \subseteq Range(call.traces.index))
       => last.err = "ok"

\* A two-row table was filtered to its two ids in the opposite order.
C3_Witness ==
    /\ last.op = "__init__" /\ last.err = "ok" /\ ~IsNone(call.filter)
    /\ Len(call.traces.index) = 2
    /\ call.filter.v = <<call.traces.index[2], call.traces.index[1]>>
    /\ self.value.index = call.filter.v

\* C4: no partial write.  A to_nwb call either succeeds, leaving a new
\* block with its data, unit, rois and timestamps, or raises and leaves
\* the file as it was before the call.  Stated for a non-empty table of
\* traces with a unique index, on a file whose dff series is over the same
\* ROIs.
C4_NoPartialWrite ==
    (/\ last.op = "to_nwb"
     /\ self.value.index # <<>> /\ IsUnique(self.value.index)
     /\ IsTraceTable(self.value)
     /\ ~IsNone(last.pre.dff)
     /\ Range(self.value.index) = Range(last.pre.dff.rois)) =>
        IF last.err = "ok"
        THEN /\ IsNone(last.pre.cf)
             /\ HasBlock(nwbfile)
             /\ ~IsNone(nwbfile.cf.traces.timestamps)
        ELSE nwbfile = last.pre

\* C5: to_nwb on a file without the dff series raises and leaves the file
\* as it was, with no corrected_fluorescence interface.
C5_MissingCompanion ==
    (last.op = "to_nwb" /\ IsNone(last.pre.dff))
    => (last.err # "ok" /\ nwbfile = last.pre /\ IsNone(nwbfile.cf))

\* A well-named, non-empty table met an ophys module without dff.
C5_Witness ==
    /\ last.op = "to_nwb" /\ last.pre.ophys /\ IsNone(last.pre.dff)
    /\ self.value.name = "cell_roi_id" /\ self.value.index # <<>>
    /\ last.err = "KeyError" /\ IsNone(nwbfile.cf)

\* C6: to_nwb on a table whose index is not named cell_roi_id raises
\* AssertionError and leaves the file as it was.
C6_IndexNameChecked ==
    (last.op = "to_nwb" /\ self.value.name # "cell_roi_id")
    => (last.err = "AssertionError" /\ nwbfile = last.pre)

\* A misnamed table met a file that a well-named one could be written to.
C6_Witness ==
    /\ last.op = "to_nwb" /\ self.value.name # "cell_roi_id"
    /\ self.value.index # <<>> /\ IsUnique(self.value.index)
    /\ ~IsNone(last.pre.dff) /\ ~IsNone(last.pre.dff.timestamps)
    /\ IsNone(last.pre.cf)
    /\ last.err = "AssertionError"

\* C7: alignment.  After a successful to_nwb the block's data has one row
\* per borrowed timestamp and one column per id of the borrowed ROI
\* table, and column i is the trace of the ROI at position i of that table.
\* Stated for the files most favourable to the claim: the dff series is
\* of the same session as the table.
C7_Aligned ==
    (last.op = "to_nwb" /\ last.err = "ok" /\ SameSession(self.value, last.pre.dff))
    => LET s == nwbfile.cf.traces
           t == self.value
       IN  /\ s.data.shape = <<Len(s.timestamps.v), Len(s.rois)>>
           /\ \A i \in DOMAIN s.rois :
                 \E p \in DOMAIN t.index :
                    /\ t.index[p] = s.rois[i]
                    /\ t.vals[p] = Column(s.data, i)

\* C8: orientation.  from_nwb without a filter on a block of T x N samples
\* over an ROI table of N ids builds N rows of T samples, row i being
\* column i, indexed by the ROI ids in their order; writing that table
\* again gives a block with the data it was read from.
C8_Orientation ==
    /\ (/\ last.op = "from_nwb" /\ IsNone(last.filter) /\ HasBlock(nwbfile)
        /\ IsSamples2D(nwbfile.cf.traces.data)
        /\ Len(nwbfile.cf.traces.rois) = nwbfile.cf.traces.data.shape[2])
       => LET d == nwbfile.cf.traces.data
          IN  /\ last.err = "ok"
              /\ self.value.name = "cell_roi_id"
              /\ self.value.index = nwbfile.cf.traces.rois
              /\ Len(self.value.vals) = d.shape[2]
              /\ \A i \in 1..d.shape[2] : self.value.vals[i] = Column(d, i)
    /\ (last.op = "to_nwb" /\ last.err = "ok"
            /\ ~IsNone(origin) /\ IsSamples2D(origin))
       => nwbfile.cf.traces.data = origin

\* A table read from a block of T timepoints x N ROIs, N >= 2 and T # N,
\* was written again and gave the data it was read from.
C8_Witness ==
    /\ last.op = "to_nwb" /\ last.err = "ok"
    /\ ~IsNone(origin) /\ IsSamples2D(origin)
    /\ origin.shape[2] >= 2 /\ origin.shape[1] # origin.shape[2]
    /\ nwbfile.cf.traces.data = origin

\* C9: content of a written block.  A successful to_nwb adds the block to
\* a file that had none; its data is the table transposed in the table's
\* own row order (data[t][i] is sample t of row i), its rois and
\* timestamps are those of the dff series, its unit is 'NA', and the dff
\* series is untouched.
\* Stated for a non-empty table of traces, on a file whose dff series is
\* over the same ROIs.
C9_BlockContent ==
    (/\ last.op = "to_nwb" /\ last.err = "ok"
     /\ self.value.index # <<>> /\ IsTraceTable(self.value)
     /\ Range(self.value.index) = Range(last.pre.dff.rois))
    => LET s == nwbfile.cf.traces
           t == self.value
           N == Len(t.index)
       IN  /\ IsNone(last.pre.cf)
           /\ nwbfile.dff = last.pre.dff
           /\ s.rois = last.pre.dff.rois
           /\ s.timestamps = last.pre.dff.timestamps
           /\ s.unit = "NA"
           /\ N > 0 => /\ s.data.shape = <<Len(t.vals[1].v), N>>
                       /\ \A i \in 1..N : t.vals[i] = Column(s.data, i)

\* C10: every constructed object holds a table with unique keys whose
\* sample sequences all have one length (the source tables have both).
C10_TableInvariant ==
    (last.op \in {"__init__", "from_data_file", "from_nwb"} /\ last.err = "ok")
    => /\ IsUnique(self.value.index)
       /\ \A i, j \in DOMAIN self.value.vals :
             Len(self.value.vals[i].v) = Len(self.value.vals[j].v)

====
